---- MODULE Spec2Model ----
(***************************************************************************)
(* Model of samples/livestream/livestream_server.py: the stream registry   *)
(* (StreamManager), the channels (LiveStream), the publisher and viewer    *)
(* handlers and the per-connection router (LivestreamProtocol).            *)
(*                                                                         *)
(* The server runs on one asyncio event loop, so a task runs without       *)
(* interruption from one await that suspends to the next.  StreamManager's *)
(* lock is only held by code that contains no await, so acquiring it never *)
(* suspends; `lock` names the task that is inside `async with self.lock`   *)
(* when a step ends.  The variable `running` names the handler task that is in the *)
(* middle of such an uninterrupted run (0 when the loop is between         *)
(* callbacks); the positions inside the run are kept as separate values of *)
(* pc so that the effect of each statement can be observed.                *)
(*                                                                         *)
(* Nothing in the program cancels a handle() task; CancelledError reaches  *)
(* it only when the event loop is torn down at exit, which is not part of  *)
(* the model.  A handler is mapped under its session identifier; the       *)
(* identifiers of all connections are taken from one set.                  *)
(***************************************************************************)
EXTENDS Integers, Sequences, FiniteSets, TLC

\* ---- bounds of the model ----
NumSessions == 3
MaxDatagrams == 2

Sids == 1..NumSessions
ObjIds == 1..NumSessions
Names == {"s1", "s2"}
Kinds == {"publish", "watch", "bad_request", "unknown_path"}

VARIABLES
    streams,    \* StreamManager.streams: name -> channel object (0 = no entry)
    objs,       \* the LiveStream objects: publisher slot and viewer set
    handlers,   \* LivestreamProtocol.handlers: session id -> handler fields
    response,   \* status sent by _send_response for each session id (0 = none)
    pc,         \* position of each handler's handle() task
    stream,     \* the local variable `stream` of each handle() task (0 = None)
    running,    \* the handle() task that is between two of its statements
    dgs,        \* the datagram events received, with the state of their relay
                \* (replaced: the slot held another publisher when it ran)
    delivered,  \* the sends that completed: send_datagram and transmit returned
    missed,     \* per viewer: the broadcasts already called when it was added
    closed,     \* the sessions whose connection has terminated
    lock        \* the task inside `async with self.lock` (0 = lock free)

vars == <<streams, objs, handlers, response, pc, stream, running, dgs,
          delivered, missed, closed, lock>>

\* ---- LiveStream ----
NoHandler == [kind |-> "none", stream_id |-> "", active |-> FALSE]

LiveStream == [alloc |-> TRUE, publisher |-> {}, viewers |-> {}]

NoObj == [alloc |-> FALSE, publisher |-> {}, viewers |-> {}]

\* Faulty variants of set_publisher: the new publisher is added next to the old
\* one; the first publisher keeps the slot.
set_publisher_adds(o, h) == [o EXCEPT !.publisher = @ \cup {h}]

set_publisher_first_wins(o, h) ==
    IF o.publisher = {} THEN [o EXCEPT !.publisher = {h}] ELSE o

set_publisher(o, h) == [o EXCEPT !.publisher = {h}]

add_viewer(o, h) == [o EXCEPT !.viewers = @ \cup {h}]

remove_viewer(o, h) == [o EXCEPT !.viewers = @ \ {h}]

\* ---- StreamManager ----
FreeObj(os) == CHOOSE o \in ObjIds : ~os[o].alloc /\ \A p \in ObjIds : ~os[p].alloc => o <= p

\* Faulty variant of get_stream: the create flag is ignored.
get_stream_always_creates(strs, os, name, create) ==
    IF strs[name] = 0
    THEN LET o == FreeObj(os) IN
         [streams |-> [strs EXCEPT ![name] = o],
          objs |-> [os EXCEPT ![o] = LiveStream],
          result |-> o]
    ELSE [streams |-> strs, objs |-> os, result |-> strs[name]]

get_stream(strs, os, name, create) ==
    IF strs[name] = 0 /\ create
    THEN LET o == FreeObj(os) IN
         [streams |-> [strs EXCEPT ![name] = o],
          objs |-> [os EXCEPT ![o] = LiveStream],
          result |-> o]
    ELSE [streams |-> strs, objs |-> os, result |-> strs[name]]

\* Faulty variant of remove_stream_if_empty: the publisher slot is not
\* looked at.
remove_stream_if_empty_ignores_publisher(strs, os, name) ==
    IF strs[name] # 0 /\ os[strs[name]].viewers = {}
    THEN [strs EXCEPT ![name] = 0]
    ELSE strs

\* Faulty variants of remove_stream_if_empty: the viewer test is inverted; the
\* viewer test is missing.
remove_stream_if_empty_inverted(strs, os, name) ==
    IF strs[name] # 0 /\ os[strs[name]].publisher = {} /\ os[strs[name]].viewers # {}
    THEN [strs EXCEPT ![name] = 0]
    ELSE strs

remove_stream_if_empty_ignores_viewers(strs, os, name) ==
    IF strs[name] # 0 /\ os[strs[name]].publisher = {}
    THEN [strs EXCEPT ![name] = 0]
    ELSE strs

remove_stream_if_empty(strs, os, name) ==
    IF strs[name] # 0 /\ os[strs[name]].publisher = {} /\ os[strs[name]].viewers = {}
    THEN [strs EXCEPT ![name] = 0]
    ELSE strs

\* An object that neither the registry nor a handle() task references is
\* unreachable; its identity is reused.
Collect(os, strs, st) ==
    [o \in ObjIds |->
        IF (\E n \in Names : strs[n] = o) \/ (\E s \in Sids : st[s] = o)
        THEN os[o] ELSE NoObj]

Init ==
    /\ streams = [n \in Names |-> 0]
    /\ objs = [o \in ObjIds |-> NoObj]
    /\ handlers = [s \in Sids |-> NoHandler]
    /\ response = [s \in Sids |-> 0]
    /\ pc = [s \in Sids |-> "none"]
    /\ stream = [s \in Sids |-> 0]
    /\ running = 0
    /\ dgs = <<>>
    /\ delivered = {}
    /\ missed = [s \in Sids |-> {}]
    /\ closed = {}
    /\ lock = 0

\* ---- LivestreamProtocol ----
\* The transport assigns session identifiers in increasing order.
NextSid == CHOOSE s \in Sids : response[s] = 0 /\ \A t \in Sids : response[t] = 0 => s <= t

\* Faulty variant of HeadersReceived: a handler is mapped before the request
\* is validated, so a rejected request leaves a session in the router.
HeadersReceived_maps_rejected(kind, name) ==
    /\ running = 0
    /\ \E s \in Sids : response[s] = 0
    /\ LET s == NextSid IN
       /\ handlers' = [handlers EXCEPT ![s] =
               [kind |-> IF kind = "publish" THEN "publish" ELSE "watch",
                stream_id |-> name, active |-> TRUE]]
       /\ IF kind = "bad_request"
          THEN /\ response' = [response EXCEPT ![s] = 400]
               /\ UNCHANGED pc
          ELSE IF kind \in {"publish", "watch"}
          THEN /\ response' = [response EXCEPT ![s] = 200]
               /\ pc' = [pc EXCEPT ![s] = "created"]
          ELSE /\ response' = [response EXCEPT ![s] = 404]
               /\ UNCHANGED pc
    /\ UNCHANGED <<streams, objs, stream, running, dgs, delivered, missed, closed, lock>>

\* _h3_event_received, HeadersReceived branch.
HeadersReceived(kind, name) ==
    /\ running = 0
    /\ \E s \in Sids : response[s] = 0
    /\ LET s == NextSid IN
       IF kind = "bad_request"
       THEN /\ response' = [response EXCEPT ![s] = 400]
            /\ UNCHANGED <<handlers, pc>>
       ELSE IF kind \in {"publish", "watch"}
       THEN /\ handlers' = [handlers EXCEPT ![s] =
                    [kind |-> kind, stream_id |-> name, active |-> TRUE]]
            /\ response' = [response EXCEPT ![s] = 200]
            /\ pc' = [pc EXCEPT ![s] = "created"]
       ELSE /\ response' = [response EXCEPT ![s] = 404]
            /\ UNCHANGED <<handlers, pc>>
    /\ UNCHANGED <<streams, objs, stream, running, dgs, delivered, missed, closed, lock>>

\* Faulty variant of StreamReset: the reset handler itself takes the session
\* out of its channel instead of leaving that to the handle() task.
StreamReset_detaches(s) ==
    /\ running = 0
    /\ s \notin closed
    /\ IF handlers[s].kind # "none"
       THEN /\ handlers' = [handlers EXCEPT ![s].active = FALSE]
            /\ objs' = [o \in ObjIds |->
                    [objs[o] EXCEPT !.publisher = @ \ {s}, !.viewers = @ \ {s}]]
       ELSE UNCHANGED <<handlers, objs>>
    /\ UNCHANGED <<streams, response, pc, stream, running, dgs,
                   delivered, missed, closed, lock>>

\* quic_event_received, StreamReset branch.
StreamReset(s) ==
    /\ running = 0
    /\ s \notin closed
    /\ IF handlers[s].kind # "none"
       THEN handlers' = [handlers EXCEPT ![s].active = FALSE]
       ELSE UNCHANGED handlers
    /\ UNCHANGED <<streams, objs, response, pc, stream, running, dgs,
                   delivered, missed, closed, lock>>

\* quic_event_received for a ConnectionTerminated event, on the connection
\* that carries session s: neither branch matches and the H3 layer yields no
\* event for it.  No further event arrives on that connection.
ConnectionTerminated(s) ==
    /\ running = 0
    /\ handlers[s].kind # "none"
    /\ s \notin closed
    /\ closed' = closed \cup {s}
    /\ UNCHANGED <<streams, objs, handlers, response, pc, stream, running, dgs,
                   delivered, missed, lock>>

\* ---- PublisherHandler.handle ----
\* `while self.active`: the task either suspends in sleep or falls through
\* to the finally block.
LoopOrCleanup(s) == IF handlers[s].active THEN "loop" ELSE "cleanup"

PublisherRegister(s) ==
    /\ running = 0
    /\ lock = 0
    /\ pc[s] = "created"
    /\ handlers[s].kind = "publish"
    /\ LET r == get_stream(streams, objs, handlers[s].stream_id, TRUE) IN
       /\ streams' = r.streams
       /\ objs' = [r.objs EXCEPT ![r.result] = set_publisher(@, s)]
       /\ stream' = [stream EXCEPT ![s] = r.result]
    /\ pc' = [pc EXCEPT ![s] = LoopOrCleanup(s)]
    /\ running' = IF handlers[s].active THEN 0 ELSE s
    /\ UNCHANGED <<handlers, response, dgs, delivered, missed, closed, lock>>

\* Faulty variant of LoopExit: the keep-alive loop is left while the flag is
\* still set and never once it is cleared.
LoopExit_while_active(s) ==
    /\ running = 0
    /\ pc[s] = "loop"
    /\ handlers[s].active
    /\ pc' = [pc EXCEPT ![s] = "cleanup"]
    /\ running' = s
    /\ UNCHANGED <<streams, objs, handlers, response, stream, dgs, delivered, missed, closed, lock>>

\* The sleep returns and `while self.active` is false.
LoopExit(s) ==
    /\ running = 0
    /\ pc[s] = "loop"
    /\ ~handlers[s].active
    /\ pc' = [pc EXCEPT ![s] = "cleanup"]
    /\ running' = s
    /\ UNCHANGED <<streams, objs, handlers, response, stream, dgs, delivered, missed, closed, lock>>

\* finally: stream.publisher = None
PublisherCleanup(s) ==
    /\ running = s
    /\ pc[s] = "cleanup"
    /\ handlers[s].kind = "publish"
    /\ objs' = [objs EXCEPT ![stream[s]].publisher = {}]
    /\ pc' = [pc EXCEPT ![s] = "prune"]
    /\ UNCHANGED <<streams, handlers, response, stream, running, dgs,
                   delivered, missed, closed, lock>>

\* ---- ViewerHandler.handle ----
\* The datagram events whose relay has already run (broadcast_datagram has
\* been called for them, or they were dropped).
Called == {i \in 1..Len(dgs) : dgs[i].st # "queued"}

ViewerRegister(s) ==
    /\ running = 0
    /\ lock = 0
    /\ pc[s] = "created"
    /\ handlers[s].kind = "watch"
    /\ LET r == get_stream(streams, objs, handlers[s].stream_id, FALSE) IN
       IF r.result = 0
       THEN /\ pc' = [pc EXCEPT ![s] = "rejected"]
            /\ UNCHANGED <<streams, objs, stream, running, missed>>
       ELSE /\ streams' = r.streams
            /\ objs' = [r.objs EXCEPT ![r.result] = add_viewer(@, s)]
            /\ stream' = [stream EXCEPT ![s] = r.result]
            /\ missed' = [missed EXCEPT ![s] = Called]
            /\ pc' = [pc EXCEPT ![s] = LoopOrCleanup(s)]
            /\ running' = IF handlers[s].active THEN 0 ELSE s
    /\ UNCHANGED <<handlers, response, dgs, delivered, closed, lock>>

\* finally: stream.remove_viewer(self)
ViewerCleanup(s) ==
    /\ running = s
    /\ pc[s] = "cleanup"
    /\ handlers[s].kind = "watch"
    /\ objs' = [objs EXCEPT ![stream[s]] = remove_viewer(@, s)]
    /\ pc' = [pc EXCEPT ![s] = "prune"]
    /\ UNCHANGED <<streams, handlers, response, stream, running, dgs,
                   delivered, missed, closed, lock>>

\* finally: await stream_manager.remove_stream_if_empty(self.stream_id),
\* after which handle() returns.
Prune(s) ==
    /\ running = s
    /\ lock = 0
    /\ pc[s] = "prune"
    /\ streams' = remove_stream_if_empty(streams, objs, handlers[s].stream_id)
    /\ stream' = [stream EXCEPT ![s] = 0]
    /\ objs' = Collect(objs, streams', stream')
    /\ pc' = [pc EXCEPT ![s] = "done"]
    /\ running' = 0
    /\ UNCHANGED <<handlers, response, dgs, delivered, missed, closed, lock>>

\* ---- datagram relay ----
\* quic_event_received: the H3 layer yields a DatagramReceived event and a
\* task is created for _h3_event_received.
DatagramArrives(s) ==
    /\ running = 0
    /\ s \notin closed
    /\ Len(dgs) < MaxDatagrams
    /\ dgs' = Append(dgs, [sid |-> s, data |-> Len(dgs) + 1, st |-> "queued",
                           payload |-> 0, snap |-> {}, replaced |-> FALSE,
                           failed |-> {},
                           raised |-> FALSE])
    /\ UNCHANGED <<streams, objs, handlers, response, pc, stream, running,
                   delivered, missed, closed, lock>>

\* Faulty variant of RelayPayload: something other than event.data is forwarded.
RelayPayload_not_verbatim(data) == 0

\* PublisherHandler.h3_event_received: the payload handed to broadcast.
RelayPayload(data) == data

\* LiveStream.broadcast_datagram up to the await: the list of send tasks is
\* built from the viewer set as it is now.
broadcast_datagram(o) == IF o.viewers = {} THEN {} ELSE o.viewers

\* Faulty variant of IsPublisherHandler: any mapped handler is relayed.
IsPublisherHandler_any_handler(h) == h.kind # "none"

\* _h3_event_received: isinstance(handler, PublisherHandler), for the handler
\* found under the datagram's session id (NoHandler when there is none).
IsPublisherHandler(h) == h.kind = "publish"

\* Faulty variant of RelayStream: the channel is resolved only for the
\* publisher that occupies its slot.
RelayStream_slot_holder_only(p) ==
    LET o == get_stream(streams, objs, handlers[p].stream_id, FALSE).result IN
    IF o # 0 /\ objs[o].publisher = {p} THEN o ELSE 0

\* PublisherHandler.h3_event_received: the channel is looked up by the
\* handler's stream_id, without creating it (0 = None).
RelayStream(p) == get_stream(streams, objs, handlers[p].stream_id, FALSE).result

\* Faulty variant of RelayLock: the broadcast is awaited inside
\* `async with self.lock`.
RelayLock_held_across_broadcast(i) == NumSessions + i

\* The holder of the registry lock while broadcast i awaits its sends:
\* get_stream's `async with self.lock` block has ended before it returns.
RelayLock(i) == 0

\* Faulty variant of DatagramReceived: the relay looks the channel up with
\* create=True, so a datagram for an unregistered name creates the channel.
DatagramReceived_creates(i) ==
    /\ running = 0
    /\ i \in 1..Len(dgs)
    /\ dgs[i].st = "queued"
    /\ LET h == handlers[dgs[i].sid] IN
       IF ~IsPublisherHandler(h)
       THEN /\ dgs' = [dgs EXCEPT ![i].st = "dropped"]
            /\ UNCHANGED <<streams, objs, lock>>
       ELSE /\ lock = 0
            /\ LET r == get_stream(streams, objs, h.stream_id, TRUE)
                   snap == broadcast_datagram(r.objs[r.result])
               IN /\ streams' = r.streams
                  /\ objs' = r.objs
                  /\ dgs' = [dgs EXCEPT
                          ![i].st = IF snap = {} THEN "done" ELSE "sending",
                          ![i].payload = RelayPayload(dgs[i].data),
                          ![i].snap = snap,
                          ![i].replaced = r.objs[r.result].publisher \notin {{}, {dgs[i].sid}}]
                  /\ lock' = IF snap = {} THEN 0 ELSE RelayLock(i)
    /\ UNCHANGED <<handlers, response, pc, stream, running,
                   delivered, missed, closed>>

\* _h3_event_received, DatagramReceived branch, through
\* PublisherHandler.h3_event_received and broadcast_datagram until gather
\* suspends.
DatagramReceived(i) ==
    /\ running = 0
    /\ i \in 1..Len(dgs)
    /\ dgs[i].st = "queued"
    /\ LET h == handlers[dgs[i].sid] IN
       IF ~IsPublisherHandler(h)
       THEN /\ dgs' = [dgs EXCEPT ![i].st = "dropped"]
            /\ UNCHANGED lock
       ELSE /\ lock = 0
            /\ LET o == RelayStream(dgs[i].sid) IN
               IF o = 0
               THEN /\ dgs' = [dgs EXCEPT ![i].st = "nostream"]
                    /\ UNCHANGED lock
               ELSE LET snap == broadcast_datagram(objs[o]) IN
                    /\ dgs' = [dgs EXCEPT
                            ![i].st = IF snap = {} THEN "done" ELSE "sending",
                            ![i].payload = RelayPayload(dgs[i].data),
                            ![i].snap = snap,
                            ![i].replaced = objs[o].publisher \notin {{}, {dgs[i].sid}}]
                    /\ lock' = IF snap = {} THEN 0 ELSE RelayLock(i)
    /\ UNCHANGED <<streams, objs, handlers, response, pc, stream, running,
                   delivered, missed, closed>>

\* Faulty variant of send_datagram: a send that raises leaves the viewer
\* active, so the next broadcast sends to it again.
send_datagram_keeps_active(v, fails) ==
    IF ~handlers[v].active
    THEN [sent |-> FALSE, active |-> handlers[v].active, raised |-> FALSE]
    ELSE IF fails
    THEN [sent |-> FALSE, active |-> TRUE, raised |-> FALSE]
    ELSE [sent |-> TRUE, active |-> TRUE, raised |-> FALSE]

\* Faulty variant of send_datagram: a send that succeeds marks the viewer
\* active again.
send_datagram_revives(v, fails) ==
    IF fails
    THEN [sent |-> FALSE, active |-> FALSE, raised |-> FALSE]
    ELSE [sent |-> TRUE, active |-> TRUE, raised |-> FALSE]

\* Faulty variant of send_datagram: the active flag is not tested.
send_datagram_ignores_active(v, fails) ==
    IF fails
    THEN [sent |-> FALSE, active |-> FALSE, raised |-> FALSE]
    ELSE [sent |-> TRUE, active |-> handlers[v].active, raised |-> FALSE]

\* ViewerHandler.send_datagram for viewer v; `fails` says whether
\* http.send_datagram / transmit raises.
send_datagram(v, fails) ==
    IF ~handlers[v].active
    THEN [sent |-> FALSE, active |-> handlers[v].active, raised |-> FALSE]
    ELSE IF fails
    THEN [sent |-> FALSE, active |-> FALSE, raised |-> FALSE]
    ELSE [sent |-> TRUE, active |-> TRUE, raised |-> FALSE]

\* Faulty variant of Recipients: the sends go to every viewer handler the
\* router has mapped for the channel name, whether or not it was added to
\* the viewer set.
Recipients_mapped(i) ==
    {v \in Sids : /\ handlers[v].kind = "watch"
                  /\ handlers[v].stream_id = handlers[dgs[i].sid].stream_id}

\* Faulty variant of Recipients: the sends go to the viewer set as it is when they
\* run.
Recipients_live(i) ==
    LET n == handlers[dgs[i].sid].stream_id IN
    IF streams[n] = 0 THEN {} ELSE objs[streams[n]].viewers

\* The viewers the send tasks of broadcast i are bound to: the list `tasks`
\* built when broadcast_datagram was called.
Recipients(i) == dgs[i].snap

\* Faulty variant of gather: the sends are awaited one after the other and the
\* first exception ends the broadcast.
gather_sequential(snap, F) ==
    [results |-> [v \in snap |->
                    IF \E u \in F : u < v
                    THEN [sent |-> FALSE, active |-> handlers[v].active,
                          raised |-> FALSE]
                    ELSE send_datagram(v, v \in F)],
     raised |-> F # {}]

\* asyncio.gather(*tasks, return_exceptions=True): every task runs to its
\* end whatever the others do, and no exception reaches the caller.
gather(snap, F) ==
    [results |-> [v \in snap |-> send_datagram(v, v \in F)], raised |-> FALSE]

\* The send tasks of broadcast i run; F is the set of viewers whose send
\* raises.
Gather(i) ==
    /\ running = 0
    /\ i \in 1..Len(dgs)
    /\ dgs[i].st = "sending"
    /\ \E F \in SUBSET {v \in Recipients(i) : handlers[v].active} :
         LET snap == Recipients(i)
             g == gather(snap, F)
         IN /\ delivered' = delivered \cup
                    {[viewer |-> v, dg |-> i, data |-> dgs[i].payload] :
                        v \in {w \in snap : g.results[w].sent}}
            /\ handlers' = [s \in Sids |->
                    IF s \in snap
                    THEN [handlers[s] EXCEPT !.active = g.results[s].active]
                    ELSE handlers[s]]
            /\ dgs' = [dgs EXCEPT ![i].st = "done", ![i].failed = F,
                                  ![i].raised = g.raised]
    /\ lock' = IF lock = NumSessions + i THEN 0 ELSE lock
    /\ UNCHANGED <<streams, objs, response, pc, stream, running, missed, closed>>

\* The sessions alone: the router and the handle() tasks.
NextSessions ==
    \/ \E k \in Kinds, n \in Names : HeadersReceived(k, n)
    \/ \E s \in Sids : StreamReset(s)
    \/ \E s \in Sids : PublisherRegister(s)
    \/ \E s \in Sids : ViewerRegister(s)
    \/ \E s \in Sids : LoopExit(s)
    \/ \E s \in Sids : PublisherCleanup(s)
    \/ \E s \in Sids : ViewerCleanup(s)
    \/ \E s \in Sids : Prune(s)

Next ==
    \/ \E k \in Kinds, n \in Names : HeadersReceived(k, n)
    \/ \E s \in Sids : StreamReset(s)
    \/ \E s \in Sids : PublisherRegister(s)
    \/ \E s \in Sids : ViewerRegister(s)
    \/ \E s \in Sids : LoopExit(s)
    \/ \E s \in Sids : PublisherCleanup(s)
    \/ \E s \in Sids : ViewerCleanup(s)
    \/ \E s \in Sids : Prune(s)
    \/ \E s \in Sids : DatagramArrives(s)
    \/ \E i \in 1..MaxDatagrams : DatagramReceived(i)
    \/ \E i \in 1..MaxDatagrams : Gather(i)

Spec == Init /\ [][Next]_vars

SpecSessions == Init /\ [][NextSessions]_vars

\* The event loop runs every task that is ready: a handle() task that has
\* been created starts, its sleep returns, and a run that has started goes
\* on to its next statement.
Fairness ==
    \A s \in Sids :
        /\ WF_vars(PublisherRegister(s))
        /\ WF_vars(ViewerRegister(s))
        /\ WF_vars(LoopExit(s))
        /\ WF_vars(PublisherCleanup(s))
        /\ WF_vars(ViewerCleanup(s))
        /\ WF_vars(Prune(s))

SpecSessionsFair == Init /\ [][NextSessions]_vars /\ Fairness

\* The sessions, and connections that terminate.
NextClose ==
    \/ \E k \in Kinds, n \in Names : HeadersReceived(k, n)
    \/ \E s \in Sids : StreamReset(s)
    \/ \E s \in Sids : ConnectionTerminated(s)
    \/ \E s \in Sids : PublisherRegister(s)
    \/ \E s \in Sids : ViewerRegister(s)
    \/ \E s \in Sids : LoopExit(s)
    \/ \E s \in Sids : PublisherCleanup(s)
    \/ \E s \in Sids : ViewerCleanup(s)
    \/ \E s \in Sids : Prune(s)

SpecClose == Init /\ [][NextClose]_vars /\ Fairness

\* ======================================================================
\* Properties
\* ======================================================================
IsPublisher(s) == handlers[s].kind = "publish"

IsViewer(s) == handlers[s].kind = "watch"

\* The handle() task of s has registered and has not finished its cleanup.
Attached(s) == pc[s] \in {"loop", "cleanup", "prune"}

\* s is in its keep-alive loop and has not been reset.
Active(s) == pc[s] = "loop" /\ handlers[s].active

\* s runs the statement of its finally block that clears the slot / removes
\* the viewer; s runs remove_stream_if_empty; s runs its registration.
CleanupStep(s) == pc[s] = "cleanup" /\ pc'[s] = "prune"

PruneStep(s) == pc[s] = "prune" /\ pc'[s] = "done"

RegisterStep(s) == pc[s] = "created" /\ pc'[s] # "created"

\* C1 (as claimed): when a publisher closes, the slot of its channel is
\* cleared only if it still references the closing session: a slot that
\* references the publisher that replaced it is left as it is, and the
\* channel is not pruned while its slot is occupied.
C1_ClearsOnlyOwnSlot ==
    [][\A s \in Sids :
        /\ (IsPublisher(s) /\ CleanupStep(s) /\ objs[stream[s]].publisher # {s})
              => objs'[stream[s]].publisher = objs[stream[s]].publisher
        /\ (IsPublisher(s) /\ PruneStep(s)
                /\ streams[handlers[s].stream_id] # 0
                /\ objs[streams[handlers[s].stream_id]].publisher # {})
              => streams'[handlers[s].stream_id] = streams[handlers[s].stream_id]
      ]_vars

\* C2: for every channel name, the publisher slot of the channel registered
\* under that name holds at most one session, in every reachable state.
C2_AtMostOnePublisher ==
    \A n \in Names :
        streams[n] # 0 => Cardinality(objs[streams[n]].publisher) <= 1

\* Two publishers are active on the same registered channel; one holds the slot.
C2_Witness ==
    \E p, q \in Sids :
        /\ p # q /\ IsPublisher(p) /\ IsPublisher(q) /\ Active(p) /\ Active(q)
        /\ stream[p] # 0 /\ stream[p] = stream[q]
        /\ streams[handlers[p].stream_id] = stream[p]
        /\ objs[stream[p]].publisher = {q}

\* C3: when publisher s registers on a channel whose slot is occupied by p,
\* the request was accepted (200), s becomes the occupant, and the step
\* leaves p's handler (active flag), p's mapping in the router, p's task and
\* the viewer set of the channel unchanged.
C3_ReplaceLeavesIncumbent ==
    [][\A s, p \in Sids :
        (IsPublisher(s) /\ RegisterStep(s) /\ p # s
            /\ streams[handlers[s].stream_id] # 0
            /\ p \in objs[streams[handlers[s].stream_id]].publisher)
        => LET n == handlers[s].stream_id
               o == streams[n]
           IN /\ response[s] = 200
              /\ streams'[n] = o
              /\ objs'[o].publisher = {s}
              /\ handlers'[p] = handlers[p]
              /\ IsPublisher(p)
              /\ pc'[p] = pc[p]
              /\ objs'[o].viewers = objs[o].viewers
      ]_vars

\* A second publisher holds the slot of a channel with a viewer while the
\* first one is still active and mapped.
C3_Witness ==
    \E p, q, v \in Sids :
        /\ p # q /\ IsPublisher(p) /\ IsPublisher(q) /\ Active(p) /\ Active(q)
        /\ stream[p] # 0 /\ stream[p] = stream[q]
        /\ objs[stream[p]].publisher = {q}
        /\ IsViewer(v) /\ v \in objs[stream[p]].viewers

\* C7: whenever no handler is in the middle of its registration or cleanup,
\* every channel in the registry has a publisher or at least one viewer.
C7_NoDeadChannel ==
    running = 0 =>
        \A n \in Names :
            streams[n] # 0 =>
                objs[streams[n]].publisher # {} \/ objs[streams[n]].viewers # {}

\* A publisher and a viewer of a channel have both cleaned up and the channel
\* is gone from the registry.
C7_Witness ==
    /\ running = 0
    /\ \E p, v \in Sids :
        /\ IsPublisher(p) /\ IsViewer(v) /\ pc[p] = "done" /\ pc[v] = "done"
        /\ handlers[p].stream_id = handlers[v].stream_id
        /\ streams[handlers[p].stream_id] = 0

\* C8: a viewer whose channel has no registry entry when it looks it up
\* creates no entry, joins no viewer set and returns at once; it never
\* enters the keep-alive loop nor any viewer set afterwards.
C8_WatchUnknownRejected ==
    [][\A s \in Sids :
        /\ (IsViewer(s) /\ RegisterStep(s) /\ streams[handlers[s].stream_id] = 0)
              => /\ streams' = streams
                 /\ objs' = objs
                 /\ pc'[s] = "rejected"
                 /\ running' = 0
        /\ pc[s] = "rejected"
              => /\ pc'[s] = "rejected"
                 /\ \A o \in ObjIds : s \notin objs'[o].viewers
      ]_vars

\* A viewer was accepted by the router and rejected by its handler; its
\* channel has no registry entry.
C8_Witness ==
    \E s \in Sids :
        /\ IsViewer(s) /\ pc[s] = "rejected" /\ response[s] = 200
        /\ streams[handlers[s].stream_id] = 0

\* C10: when a publisher of a registered channel with viewers cleans up, the
\* slot becomes empty and the channel stays in the registry with the same
\* viewers; once no session of that name is attached any more, the name is
\* absent from the registry.
C10_Lifecycle ==
    [][/\ \A s \in Sids :
            (IsPublisher(s) /\ stream[s] # 0
                /\ streams[handlers[s].stream_id] = stream[s]
                /\ objs[stream[s]].viewers # {})
            => /\ CleanupStep(s)
                    => /\ objs'[stream[s]].publisher = {}
                       /\ objs'[stream[s]].viewers = objs[stream[s]].viewers
                       /\ streams' = streams
               /\ PruneStep(s)
                    => /\ streams' = streams
                       /\ objs'[stream[s]].viewers = objs[stream[s]].viewers
       /\ \A n \in Names :
            (running' = 0 /\ \A s \in Sids :
                    handlers'[s].stream_id = n => ~(pc'[s] \in {"loop", "cleanup", "prune"}))
            => streams'[n] = 0
      ]_vars

\* The publisher of s1 has disconnected and cleaned up while two viewers
\* stay attached: the slot is empty and s1 is still registered.
C10_Witness ==
    \E p, v, w \in Sids :
        /\ v # w /\ IsPublisher(p) /\ IsViewer(v) /\ IsViewer(w)
        /\ pc[p] = "done" /\ handlers[p].stream_id = "s1"
        /\ streams["s1"] # 0
        /\ objs[streams["s1"]].publisher = {}
        /\ objs[streams["s1"]].viewers = {v, w}
        /\ Active(v) /\ Active(w)

\* The call http.send_datagram(v, payload) made for datagram event i.
Delivery(v, i, payload) == [viewer |-> v, dg |-> i, data |-> payload]

\* The relay of datagram event i runs (the task of _h3_event_received); the
\* send tasks of broadcast i run.
RelayStep(i) == dgs[i].st = "queued" /\ dgs'[i].st # "queued"

SendStep(i) == dgs[i].st = "sending" /\ dgs'[i].st = "done"

\* C4: in a broadcast to distinct viewers v and w, if the send to v fails,
\* w (active, its own send not failing) still receives the payload; the
\* failure does not reach the broadcaster: the relay returns normally and
\* the publisher's handler and task are unchanged.
C4_FailureIsolation ==
    [][\A i \in 1..Len(dgs) :
        SendStep(i) =>
            \A v \in dgs'[i].failed :
                /\ \A w \in dgs[i].snap \ {v} :
                        (handlers[w].active /\ w \notin dgs'[i].failed)
                        => Delivery(w, i, dgs[i].payload) \in delivered'
                /\ ~dgs'[i].raised
                /\ handlers'[dgs[i].sid] = handlers[dgs[i].sid]
                /\ pc'[dgs[i].sid] = pc[dgs[i].sid]
      ]_vars

\* A broadcast to two viewers is over: the send to one failed (it is now
\* inactive and got nothing), the other received the payload, and the
\* publisher is still active.
C4_Witness ==
    \E i \in 1..Len(dgs) : \E v, w \in dgs[i].snap :
        /\ dgs[i].st = "done" /\ v # w
        /\ v \in dgs[i].failed /\ ~handlers[v].active
        /\ Delivery(v, i, dgs[i].payload) \notin delivered
        /\ Delivery(w, i, dgs[i].payload) \in delivered
        /\ Active(dgs[i].sid)

\* C5 (as claimed): a finished broadcast has reached exactly the viewers
\* that were in the viewer set when broadcast was called: every one of them
\* received the payload and nobody else did.
C5_ReachesWholeSnapshot ==
    \A i \in 1..Len(dgs) :
        dgs[i].st = "done" =>
            \A s \in Sids :
                Delivery(s, i, dgs[i].payload) \in delivered <=> s \in dgs[i].snap

\* C5 (amended): the sends of a broadcast are bound to the viewer set as it
\* is when broadcast is called, and the broadcast reaches exactly those of
\* them that are active when their send runs and whose send does not fail;
\* nothing is delivered for the broadcast outside that step.
C5_ReachesLiveSnapshot ==
    [][\A i \in 1..Len(dgs) :
        /\ (RelayStep(i) /\ dgs'[i].st \in {"sending", "done"})
              => dgs'[i].snap =
                    objs[streams[handlers[dgs[i].sid].stream_id]].viewers
        /\ SendStep(i)
              => {d \in delivered' : d.dg = i} =
                    {Delivery(v, i, dgs[i].payload) :
                        v \in {w \in dgs[i].snap :
                                  handlers[w].active /\ w \notin dgs'[i].failed}}
        /\ ~SendStep(i)
              => {d \in delivered' : d.dg = i} = {d \in delivered : d.dg = i}
      ]_vars

\* A finished broadcast to two viewers reached one of them only: the other
\* had been reset (inactive, not yet removed from the set) when its send ran.
C5_Witness ==
    \E i \in 1..Len(dgs) : \E v, w \in dgs[i].snap :
        /\ dgs[i].st = "done" /\ v # w /\ dgs[i].snap = {v, w}
        /\ dgs[i].failed = {}
        /\ {d \in delivered : d.dg = i} = {Delivery(w, i, dgs[i].payload)}
        /\ ~handlers[v].active

\* C6: a viewer never receives a datagram whose broadcast had already been
\* called when the viewer was added to the viewer set.
C6_NoBacklog ==
    \A v \in Sids : \A i \in missed[v] :
        \A d \in delivered : ~(d.viewer = v /\ d.dg = i)

\* D1 was delivered to v1, then v2 joined, then D2 was delivered to both:
\* v1 has D1 and D2, v2 has D2 only.
C6_Witness ==
    \E v1, v2 \in Sids :
        /\ v1 # v2 /\ Len(dgs) = 2
        /\ dgs[1].st = "done" /\ dgs[2].st = "done"
        /\ missed[v1] = {} /\ missed[v2] = {1}
        /\ delivered = {Delivery(v1, 1, dgs[1].data), Delivery(v1, 2, dgs[2].data),
                        Delivery(v2, 2, dgs[2].data)}
        /\ dgs[1].data # dgs[2].data

\* C9: a datagram event tagged with the identifier of a publisher session
\* (in particular an active one) whose channel name is registered is
\* broadcast on that channel with the payload unmodified: the sends are
\* bound to the viewers of the channel, every one of them that is active
\* after its send has received exactly that payload, and nothing else is
\* ever delivered for the event.
C9_RelayVerbatim ==
    [][\A i \in 1..Len(dgs) :
        LET p == dgs[i].sid IN
        /\ (RelayStep(i) /\ IsPublisher(p) /\ streams[handlers[p].stream_id] # 0)
              => LET o == objs[streams[handlers[p].stream_id]] IN
                 /\ dgs'[i].st = IF o.viewers = {} THEN "done" ELSE "sending"
                 /\ dgs'[i].payload = dgs[i].data
                 /\ dgs'[i].snap = o.viewers
        /\ (SendStep(i) /\ IsPublisher(p))
              => \A v \in dgs[i].snap :
                    handlers'[v].active => Delivery(v, i, dgs[i].data) \in delivered'
        /\ \A d \in delivered' : d.dg = i => d.data = dgs[i].data
      ]_vars

\* An active publisher registered on its channel sent a datagram and the
\* active viewer of the channel received it.
C9_Witness ==
    \E i \in 1..Len(dgs) : \E v \in Sids :
        /\ dgs[i].st = "done" /\ dgs[i].snap = {v}
        /\ IsPublisher(dgs[i].sid) /\ Active(dgs[i].sid)
        /\ stream[dgs[i].sid] = streams[handlers[dgs[i].sid].stream_id]
        /\ Active(v) /\ stream[v] = stream[dgs[i].sid]
        /\ Delivery(v, i, dgs[i].data) \in delivered

\* C11: a session-open request with a wrong method or secondary protocol is
\* answered 400 and one with an unrecognized path is answered 404; in both
\* cases no handler is mapped under the session id, no task is started for
\* it, and the registry, every publisher slot and every viewer set are left
\* as they were.  A rejected session id never gets a handler afterwards.
C11_RejectedOpenChangesNothing ==
    [][/\ \A k \in {"bad_request", "unknown_path"}, n \in Names :
            HeadersReceived(k, n)
            => /\ response'[NextSid] = IF k = "bad_request" THEN 400 ELSE 404
               /\ handlers[NextSid] = NoHandler
               /\ handlers' = handlers
               /\ pc' = pc /\ pc[NextSid] = "none"
               /\ streams' = streams /\ objs' = objs /\ stream' = stream
       /\ \A s \in Sids :
            response[s] \in {400, 404}
            => /\ response'[s] = response[s]
               /\ handlers'[s] = NoHandler /\ pc'[s] = "none"
      ]_vars

\* One request was answered 400 and another 404 while a channel with a
\* publisher and a viewer exists; neither rejected id has a handler.
C11_Witness ==
    \E s, t, p \in Sids :
        /\ response[s] = 400 /\ response[t] = 404
        /\ handlers[s] = NoHandler /\ handlers[t] = NoHandler
        /\ response[p] = 200 /\ Attached(p)
        /\ streams[handlers[p].stream_id] = stream[p]

\* C12: a send that fails during a broadcast affects the failing viewer
\* only.  The step in which the sends of a broadcast run clears the active
\* flag of every viewer whose send failed and changes no other handler (the
\* publisher's and the other viewers' flags stay as they were), no slot, no
\* viewer set and no registry entry; and a viewer whose send has failed is
\* delivered nothing by any later step, although it is still in the viewer
\* set (there is no retry).
C12_SendFailureIsolated ==
    [][/\ \A i \in 1..Len(dgs) :
            SendStep(i)
            => /\ \A v \in dgs'[i].failed : ~handlers'[v].active
               /\ \A s \in Sids :
                    (s \notin dgs'[i].failed /\ handlers[s].active)
                        => handlers'[s] = handlers[s]
               /\ \A s \in Sids :
                    handlers'[s] = [handlers[s] EXCEPT !.active = handlers'[s].active]
               /\ streams' = streams /\ objs' = objs /\ pc' = pc
       /\ \A v \in Sids :
            (\E i \in 1..Len(dgs) : dgs[i].st = "done" /\ v \in dgs[i].failed)
            => {d \in delivered' : d.viewer = v} = {d \in delivered : d.viewer = v}
      ]_vars

\* The send to v failed in the first broadcast while w received it; the
\* second broadcast was bound to v and w again and reached w only.  The
\* publisher is still active and holds the slot.
C12_Witness ==
    \E v, w \in Sids :
        /\ v # w /\ Len(dgs) = 2
        /\ dgs[1].st = "done" /\ dgs[2].st = "done"
        /\ dgs[1].snap = {v, w} /\ dgs[2].snap = {v, w}
        /\ dgs[1].failed = {v} /\ dgs[2].failed = {}
        /\ delivered = {Delivery(w, 1, dgs[1].payload), Delivery(w, 2, dgs[2].payload)}
        /\ ~handlers[v].active /\ handlers[w].active
        /\ Active(dgs[1].sid)
        /\ objs[stream[dgs[1].sid]].publisher = {dgs[1].sid}

\* C13: an inbound datagram is handed to a broadcast only when the handler
\* mapped under its session id is a publisher handler.  The relay of a
\* datagram tagged with a viewer's id or with an id that has no handler drops
\* it: no send is bound to it, nothing else changes, and nothing is ever
\* delivered for it.
C13_OnlyPublisherDatagramsRelayed ==
    [][\A i \in 1..Len(dgs) :
        /\ (RelayStep(i) /\ ~IsPublisher(dgs[i].sid))
              => /\ dgs' = [dgs EXCEPT ![i].st = "dropped"]
                 /\ delivered' = delivered
                 /\ handlers' = handlers /\ streams' = streams /\ objs' = objs
        /\ (RelayStep(i) /\ dgs'[i].st # "dropped") => IsPublisher(dgs[i].sid)
        /\ dgs[i].st = "dropped" => dgs'[i] = dgs[i]
        /\ \A d \in delivered' :
              d.dg = i => (dgs'[i].st = "done" /\ handlers'[dgs[i].sid].kind = "publish")
      ]_vars

\* A datagram tagged with the id of an active viewer and one tagged with an
\* id that has no handler were both dropped, and nothing was delivered
\* although the channel has an active viewer.
C13_Witness ==
    \E v \in Sids :
        /\ Len(dgs) = 2
        /\ dgs[1].st = "dropped" /\ dgs[2].st = "dropped"
        /\ dgs[1].sid = v /\ IsViewer(v) /\ Active(v)
        /\ v \in objs[streams[handlers[v].stream_id]].viewers
        /\ handlers[dgs[2].sid].kind = "none"
        /\ delivered = {}

\* C14: the router's handling of a reset for a session id that has a handler
\* only sets that handler's active flag to false: the registry, every
\* publisher slot, every viewer set, every other handler and every handle()
\* task are as they were.  A reset for an id without a handler changes
\* nothing at all.
C14_ResetOnlyClearsFlag ==
    [][\A s \in Sids :
        StreamReset(s)
        => /\ streams' = streams /\ objs' = objs
           /\ pc' = pc /\ stream' = stream /\ response' = response
           /\ handlers[s].kind # "none"
                => handlers' = [handlers EXCEPT ![s].active = FALSE]
           /\ handlers[s].kind = "none" => UNCHANGED vars
      ]_vars

\* A viewer and the publisher of its channel have both been reset and
\* neither has run its cleanup yet: both flags are false while the slot, the
\* viewer set and the registry entry still hold them.
C14_Witness ==
    \E p, v \in Sids :
        /\ IsPublisher(p) /\ IsViewer(v)
        /\ pc[p] = "loop" /\ pc[v] = "loop"
        /\ ~handlers[p].active /\ ~handlers[v].active
        /\ stream[p] = stream[v] /\ streams[handlers[p].stream_id] = stream[p]
        /\ objs[stream[p]].publisher = {p} /\ objs[stream[p]].viewers = {v}

\* C15: cleanup after a reset is live and runs once.  Under the event loop's
\* fair scheduling, a registered session whose active flag has been cleared
\* eventually finishes its finally block: it is then in no viewer set and in
\* no publisher slot, and remove_stream_if_empty has been called (the only
\* way to the end of handle()).  A further reset of a session whose flag is
\* already cleared changes nothing, the finally block is entered only with
\* the flag cleared, and it is never entered again once it has been passed.
C15_ResetCleanupLiveOnce ==
    /\ \A s \in Sids :
          (Attached(s) /\ ~handlers[s].active)
          ~> (/\ pc[s] = "done"
              /\ \A o \in ObjIds : s \notin objs[o].viewers /\ s \notin objs[o].publisher)
    /\ [][\A s \in Sids :
            /\ (StreamReset(s) /\ handlers[s].kind # "none" /\ ~handlers[s].active)
                  => UNCHANGED vars
            /\ CleanupStep(s) => ~handlers[s].active
            /\ pc[s] \in {"prune", "done"} => pc'[s] \in {"prune", "done"}
            /\ pc[s] = "done" => pc'[s] = "done"
         ]_vars

\* A publisher and a viewer of the same channel were reset and both have
\* finished: the channel is gone from the registry.
C15_Witness ==
    \E p, v \in Sids :
        /\ IsPublisher(p) /\ IsViewer(v)
        /\ handlers[p].stream_id = handlers[v].stream_id
        /\ pc[p] = "done" /\ pc[v] = "done"
        /\ ~handlers[p].active /\ ~handlers[v].active
        /\ streams[handlers[p].stream_id] = 0
        /\ \A o \in ObjIds : ~objs[o].alloc

\* C16 (as claimed): a session is destroyed when its transport session ends
\* by close as well as by reset: when the connection that carries a
\* registered publisher or viewer terminates without a reset of the session,
\* the session eventually finishes its cleanup (it is taken out of its
\* channel and the channel is pruned if empty).
C16_ClosedConnectionCleansUp ==
    \A s \in Sids : (s \in closed /\ Attached(s)) ~> (pc[s] = "done")

C18_PruneIffEmpty ==
    \A n \in Names :
        LET r == remove_stream_if_empty(streams, objs, n)
            empty == streams[n] # 0 /\ objs[streams[n]].publisher = {}
                                    /\ objs[streams[n]].viewers = {}
        IN /\ (r[n] = 0) <=> (streams[n] = 0 \/ empty)
           /\ ~empty => r = streams
           /\ \A m \in Names \ {n} : r[m] = streams[m]
           /\ remove_stream_if_empty(r, objs, n) = r

\* A session is about to call remove_stream_if_empty on a channel that is
\* registered and empty, while the other name is registered with a channel
\* whose slot holds an active publisher.
C18_Witness ==
    \E s, t \in Sids :
        /\ pc[s] = "prune"
        /\ streams[handlers[s].stream_id] # 0
        /\ objs[streams[handlers[s].stream_id]].publisher = {}
        /\ objs[streams[handlers[s].stream_id]].viewers = {}
        /\ handlers[t].stream_id # handlers[s].stream_id
        /\ IsPublisher(t) /\ Active(t)
        /\ streams[handlers[t].stream_id] = stream[t]
        /\ objs[stream[t]].publisher = {t}

\* C19: a replaced publisher keeps relaying.  When the relay of a datagram
\* tagged with publisher p runs while the slot of the channel registered
\* under p's name is held by another publisher, the datagram is broadcast
\* all the same: the sends are bound to the current viewers of that channel
\* with the payload unchanged, the sends then reach every one of them that is
\* active after its send, and no error is raised.  The same holds for the
\* datagrams of the publisher that holds the slot.
C19_ReplacedPublisherStillRelays ==
    [][\A i \in 1..Len(dgs) :
        LET p == dgs[i].sid
            n == handlers[p].stream_id
        IN /\ (RelayStep(i) /\ IsPublisher(p) /\ streams[n] # 0
                  /\ objs[streams[n]].publisher # {})
              => /\ dgs'[i].snap = objs[streams[n]].viewers
                 /\ dgs'[i].st = IF objs[streams[n]].viewers = {} THEN "done" ELSE "sending"
                 /\ dgs'[i].payload = dgs[i].data
                 /\ ~dgs'[i].raised
           /\ (SendStep(i) /\ IsPublisher(p))
              => /\ \A v \in dgs[i].snap :
                      handlers'[v].active => Delivery(v, i, dgs[i].data) \in delivered'
                 /\ ~dgs'[i].raised
                 /\ handlers'[p] = handlers[p]
      ]_vars

\* p and q are both active publishers of the same channel and q holds the
\* slot; a datagram of p and a datagram of q were each relayed while that was
\* so, and the viewer v of the channel received both.
C19_Witness ==
    \E p, q, v \in Sids :
        /\ p # q /\ IsPublisher(p) /\ IsPublisher(q) /\ IsViewer(v)
        /\ Active(p) /\ Active(q) /\ Active(v)
        /\ stream[p] = stream[q] /\ stream[v] = stream[p]
        /\ streams[handlers[p].stream_id] = stream[p]
        /\ objs[stream[p]].publisher = {q}
        /\ Len(dgs) = 2
        /\ {dgs[1].sid, dgs[2].sid} = {p, q}
        /\ \A i \in 1..2 : dgs[i].replaced <=> dgs[i].sid = p
        /\ missed[v] = {}
        /\ delivered = {Delivery(v, 1, dgs[1].data), Delivery(v, 2, dgs[2].data)}

\* C20: no orphaned channel objects.  In every reachable state, including
\* the states inside a handler's finally block, a channel object whose
\* publisher slot or viewer set is not empty is the object the registry maps
\* a name to, and that name is the one its sessions asked for; and no step
\* removes or replaces a registry entry whose channel holds a session.
C20_NoOrphanedChannel ==
    /\ \A o \in ObjIds :
          (objs[o].publisher # {} \/ objs[o].viewers # {})
          => /\ \E n \in Names : streams[n] = o
             /\ \A s \in objs[o].publisher \cup objs[o].viewers :
                   streams[handlers[s].stream_id] = o
    /\ \A s \in Sids :
          (stream[s] # 0 /\ streams[handlers[s].stream_id] # stream[s])
          => (s \notin objs[stream[s]].publisher /\ s \notin objs[stream[s]].viewers)

\* Publisher q still holds a channel object that has been taken out of the
\* registry (its slot had been cleared by the cleanup of p); the object
\* holds no session, and the viewer v that asked for the same name while it
\* had no entry was turned away rather than added to an unregistered object.
C20_Witness ==
    \E p, q, v \in Sids :
        /\ IsPublisher(p) /\ IsPublisher(q) /\ IsViewer(v)
        /\ handlers[p].stream_id = handlers[q].stream_id
        /\ handlers[v].stream_id = handlers[q].stream_id
        /\ pc[p] = "done" /\ Active(q) /\ pc[v] = "rejected"
        /\ objs[stream[q]].alloc
        /\ \A n \in Names : streams[n] # stream[q]
        /\ objs[stream[q]].publisher = {} /\ objs[stream[q]].viewers = {}

\* C21 (as claimed): once a publisher has been reset (its active flag is
\* false), a datagram tagged with its session id is no longer broadcast:
\* the relay of such a datagram binds no send to any viewer, also when the
\* channel of its name is still registered.
C21_ResetPublisherNotRelayed ==
    [][\A i \in 1..Len(dgs) :
        (RelayStep(i) /\ IsPublisher(dgs[i].sid) /\ ~handlers[dgs[i].sid].active)
        => (dgs'[i].snap = {} /\ dgs'[i].st # "sending")
      ]_vars

\* C22: handling an inbound datagram never changes the structure of the
\* registry.  Neither the relay step of a datagram nor the step in which its
\* sends run adds or removes a registry entry or a channel object, or
\* changes a publisher slot or a viewer set.  The relay of a publisher's
\* datagram whose channel name has no entry at that moment drops it: no
\* channel is created, no send is bound to it and nothing is ever delivered
\* for it.
C22_DatagramLeavesRegistry ==
    [][\A i \in 1..Len(dgs) :
        LET p == dgs[i].sid IN
        /\ (RelayStep(i) \/ SendStep(i))
              => /\ streams' = streams /\ objs' = objs
                 /\ stream' = stream /\ pc' = pc
        /\ (RelayStep(i) /\ IsPublisher(p) /\ streams[handlers[p].stream_id] = 0)
              => /\ dgs' = [dgs EXCEPT ![i].st = "nostream"]
                 /\ delivered' = delivered
        /\ dgs[i].st = "nostream" => dgs'[i] = dgs[i]
        /\ \A d \in delivered' : d.dg = i => dgs'[i].st # "nostream"
      ]_vars

\* Two publisher datagrams were dropped for want of a registry entry: one
\* is tagged with a publisher whose registration has not run yet, the other
\* with a publisher that has finished and whose channel is pruned.  No
\* channel exists.
C22_Witness ==
    \E p, q \in Sids :
        /\ IsPublisher(p) /\ IsPublisher(q)
        /\ pc[p] = "created" /\ pc[q] = "done"
        /\ handlers[p].stream_id # handlers[q].stream_id
        /\ Len(dgs) = 2
        /\ {dgs[1].sid, dgs[2].sid} = {p, q}
        /\ dgs[1].st = "nostream" /\ dgs[2].st = "nostream"
        /\ \A n \in Names : streams[n] = 0
        /\ \A o \in ObjIds : ~objs[o].alloc
        /\ delivered = {}

\* C23: a viewer whose handle() task found no registry entry for its name
\* has been accepted by the router (status 200) and stays mapped under its
\* session id, but it is in no viewer set, no send is ever bound to it and
\* nothing is ever delivered to it, whatever is created and broadcast under
\* that name later; it stays in that position for ever.
C23_RejectedViewerGetsNothing ==
    [][\A v \in Sids :
        pc[v] = "rejected"
        => /\ response[v] = 200 /\ handlers[v].kind = "watch"
           /\ handlers'[v].kind = "watch" /\ pc'[v] = "rejected"
           /\ \A o \in ObjIds : v \notin objs'[o].viewers
           /\ \A i \in 1..Len(dgs') : v \notin dgs'[i].snap
           /\ \A d \in delivered' : d.viewer # v
      ]_vars

\* v asked for a name that had no entry and was turned away; publisher p
\* then created the channel under that name, viewer w joined it and two
\* datagrams of p were delivered to w.  v is still mapped and active and
\* has received nothing.
C23_Witness ==
    \E p, v, w \in Sids :
        /\ IsPublisher(p) /\ IsViewer(v) /\ IsViewer(w)
        /\ pc[v] = "rejected" /\ handlers[v].active /\ response[v] = 200
        /\ handlers[v].stream_id = handlers[p].stream_id
        /\ Active(p) /\ Active(w)
        /\ streams[handlers[p].stream_id] = stream[p] /\ stream[w] = stream[p]
        /\ Len(dgs) = 2 /\ dgs[1].sid = p /\ dgs[2].sid = p
        /\ delivered = {Delivery(w, 1, dgs[1].data), Delivery(w, 2, dgs[2].data)}

\* C24: Closed is terminal.  No step sets the active flag of a mapped
\* handler back to true once it is false; a viewer that has run the
\* remove_viewer of its cleanup is in no viewer set from then on; a
\* publisher that has run the slot clearing of its cleanup is in no
\* publisher slot from then on; and the handle() task of a session that has
\* passed its cleanup never goes back before it.
C24_ClosedIsTerminal ==
    [][\A s \in Sids :
        /\ (handlers[s].kind # "none" /\ ~handlers[s].active)
              => (handlers'[s].kind = handlers[s].kind /\ ~handlers'[s].active)
        /\ pc[s] \in {"prune", "done"}
              => /\ pc'[s] \in {"prune", "done"}
                 /\ \A o \in ObjIds :
                       s \notin objs'[o].viewers /\ s \notin objs'[o].publisher
      ]_vars

\* Publisher p and viewer v of a channel were reset and have finished their
\* cleanup; the channel is still registered because viewer w remains, and a
\* datagram tagged with p was broadcast on it with only w bound to it; p and
\* v are still inactive and in no slot or viewer set.
C24_Witness ==
    \E p, v, w \in Sids : \E i \in 1..Len(dgs) :
        /\ IsPublisher(p) /\ IsViewer(v) /\ IsViewer(w) /\ v # w
        /\ pc[p] = "done" /\ pc[v] = "done"
        /\ ~handlers[p].active /\ ~handlers[v].active
        /\ handlers[v].stream_id = handlers[p].stream_id
        /\ Active(w) /\ streams[handlers[p].stream_id] = stream[w]
        /\ objs[stream[w]].viewers = {w} /\ objs[stream[w]].publisher = {}
        /\ dgs[i].sid = p /\ dgs[i].st = "done" /\ dgs[i].snap = {w}
        /\ missed[w] = {}

====
